---------------------------- MODULE Spec2Model ----------------------------
(***************************************************************************)
(* A model of the worksheet row iterator of the xl crate (src/src/ws.rs):  *)
(* RowIter::next reads the worksheet XML as a stream of events and yields  *)
(* one dense row per call, filling the cells and rows the XML omits.       *)
(*                                                                         *)
(* Strings are sequences of one-character strings, so that formatting a    *)
(* reference (num2col, to_string) and parsing it back (coordinates) are    *)
(* computations and not the identity.  Option<T> is a sequence of length   *)
(* 0 (None) or 1 (Some).                                                   *)
(***************************************************************************)
EXTENDS Integers, Sequences, FiniteSets, TLC

(***************************************************************************)
(* Bounds of the model.                                                    *)
(***************************************************************************)
\* highest row number a row element or a dimension carries
MaxRowNum == 3
\* most row elements of a sheet of the row-numbering family
MaxRowElems == 2
\* highest column a cell or a dimension names
MaxCol == 3
\* most cells of a row of the cell-layout family
MaxCells == 2
\* calls of next() that are followed after the first end-of-sequence
MaxNones == 2
\* An iteration that ends yields at most MaxRowNum rows (no row element and
\* no dimension names a higher row), so MaxCalls yields are reached only by
\* an iteration that does not end.
MaxCalls == MaxRowNum + 2

(***************************************************************************)
(* Characters and strings.                                                 *)
(***************************************************************************)
Letters == <<"A","B","C","D","E","F","G","H","I","J","K","L","M",
             "N","O","P","Q","R","S","T","U","V","W","X","Y","Z">>

LowerLetters == <<"a","b","c","d","e","f","g","h","i","j","k","l","m",
                  "n","o","p","q","r","s","t","u","v","w","x","y","z">>

Digits == <<"0","1","2","3","4","5","6","7","8","9">>

is_ascii_digit(c) == \E i \in 1..10 : Digits[i] = c

is_ascii_alphabetic(c) == \E i \in 1..26 : Letters[i] = c \/ LowerLetters[i] = c

is_ascii_uppercase(c) == \E i \in 1..26 : Letters[i] = c

\* str::to_uppercase on the characters of the model
to_uppercase(s) ==
    [i \in 1..Len(s) |->
        IF \E k \in 1..26 : LowerLetters[k] = s[i]
        THEN Letters[CHOOSE k \in 1..26 : LowerLetters[k] = s[i]]
        ELSE s[i]]

DigitVal(c) == (CHOOSE i \in 1..10 : Digits[i] = c) - 1

LetterVal(c) == CHOOSE i \in 1..26 : Letters[i] = c

Some(x) == <<x>>

None == <<>>

is_some(o) == Len(o) = 1

unwrap(o) == o[1]

\* usize::to_string: the decimal digits, most significant first
RECURSIVE to_string(_)
to_string(n) ==
    IF n < 10 THEN <<Digits[n + 1]>>
    ELSE to_string(n \div 10) \o <<Digits[(n % 10) + 1]>>

RECURSIVE DigitsValue(_, _)
DigitsValue(s, acc) ==
    IF s = <<>> THEN acc
    ELSE DigitsValue(Tail(s), acc * 10 + DigitVal(Head(s)))

\* str::parse::<usize>: an optional '+', then one or more decimal digits
parse_usize(s) ==
    LET body == IF s # <<>> /\ Head(s) = "+" THEN Tail(s) ELSE s
    IN  IF body # <<>> /\ \A i \in 1..Len(body) : is_ascii_digit(body[i])
        THEN Some(DigitsValue(body, 0))
        ELSE None

contains_char(s, c) == \E i \in 1..Len(s) : s[i] = c

contains_str(s, sub) ==
    \E i \in 0..(Len(s) - Len(sub)) :
        \A j \in 1..Len(sub) : s[i + j] = sub[j]

\* index (0-based) of the first character that fails the test, as the loops
\* of used_area and coordinates find it; 0 when there is none
RECURSIVE FirstNonAlpha(_, _)
FirstNonAlpha(s, i) ==
    IF i > Len(s) THEN 0
    ELSE IF ~is_ascii_alphabetic(s[i]) THEN i - 1
    ELSE FirstNonAlpha(s, i + 1)

(***************************************************************************)
(* The column codec (utils::num2col, utils::col2num).                      *)
(***************************************************************************)
XL_MAX_COL == 16384

XL_MIN_COL == 1

RECURSIVE ColDigits(_)
ColDigits(n) ==
    IF n = 0 THEN <<>>
    ELSE ColDigits((n - 1) \div 26) \o <<Letters[((n - 1) % 26) + 1]>>

num2col(n) ==
    IF n > XL_MAX_COL \/ n < XL_MIN_COL THEN None ELSE Some(ColDigits(n))

RECURSIVE ColFold(_, _)
ColFold(s, acc) ==
    IF s = <<>> THEN acc
    ELSE ColFold(Tail(s), acc * 26 + LetterVal(Head(s)))

col2num(s) ==
    LET letter == to_uppercase(s)
    IN  IF letter = <<>> \/ \E i \in 1..Len(letter) : ~is_ascii_uppercase(letter[i])
        THEN None
        ELSE LET num == ColFold(letter, 0)
             IN  IF num > XL_MAX_COL \/ num < XL_MIN_COL THEN None ELSE Some(num)

(***************************************************************************)
(* References and the used area.                                           *)
(***************************************************************************)
SubSeqFrom(s, i) == SubSeq(s, i, Len(s))

\* coordinates: the letters before the first non-alphabetic character are
\* the column, the rest is the row; <<column, row>>
coordinates(r) ==
    LET end == FirstNonAlpha(r, 1)
    IN  <<unwrap(col2num(SubSeq(r, 1, end))),
          unwrap(parse_usize(SubSeqFrom(r, end + 1)))>>

RECURSIVE FirstColon(_, _)
FirstColon(s, i) ==
    IF i > Len(s) THEN -1
    ELSE IF s[i] = ":" THEN i - 1
    ELSE FirstColon(s, i + 1)

\* used_area returning the column before the row
used_area_column_first(used_area_range) ==
    LET end == FirstColon(used_area_range, 1)
    IN  IF end = -1 THEN <<0, 0>>
        ELSE LET end_range == SubSeqFrom(used_area_range, end + 1)
                 corner == Tail(end_range)
                 e == FirstNonAlpha(corner, 1)
             IN  <<unwrap(col2num(SubSeq(corner, 1, e))),
                   unwrap(parse_usize(SubSeqFrom(corner, e + 1)))>>

\* used_area: <<rows, columns>> of the corner after the colon, <<0, 0>>
\* when the range has no colon
used_area(used_area_range) ==
    LET end == FirstColon(used_area_range, 1)
    IN  IF end = -1 THEN <<0, 0>>
        ELSE LET end_range == SubSeqFrom(used_area_range, end + 1)
                 corner == Tail(end_range)
                 e == FirstNonAlpha(corner, 1)
             IN  <<unwrap(parse_usize(SubSeqFrom(corner, e + 1))),
                   unwrap(col2num(SubSeq(corner, 1, e)))>>

(***************************************************************************)
(* Numbers: an f64 is kept exactly, as sign, integer part and the digits   *)
(* of the fraction without trailing zeros, so that "1.50" and "1.5" parse  *)
(* to the same number.                                                     *)
(***************************************************************************)
RECURSIVE StripZeros(_)
StripZeros(d) ==
    IF d # <<>> /\ d[Len(d)] = "0" THEN StripZeros(SubSeq(d, 1, Len(d) - 1))
    ELSE d

F64(neg, int, frac) ==
    [neg |-> neg /\ (int # 0 \/ frac # <<>>), int |-> int, frac |-> frac]

F64Zero == F64(FALSE, 0, <<>>)

\* str::parse::<f64> on the texts of the model: an optional sign, digits
\* with at most one '.', at least one digit
parse_f64(s) ==
    LET signed == s # <<>> /\ Head(s) \in {"+", "-"}
        body == IF signed THEN Tail(s) ELSE s
        dot == IF contains_char(body, ".")
               THEN CHOOSE i \in 1..Len(body) :
                        body[i] = "." /\ \A j \in 1..(i - 1) : body[j] # "."
               ELSE Len(body) + 1
        ip == SubSeq(body, 1, dot - 1)
        fp == SubSeqFrom(body, dot + 1)
    IN  IF /\ Len(ip) + Len(fp) >= 1
           /\ \A i \in 1..Len(ip) : is_ascii_digit(ip[i])
           /\ \A i \in 1..Len(fp) : is_ascii_digit(fp[i])
        THEN Some(F64(signed /\ Head(s) = "-", DigitsValue(ip, 0), StripZeros(fp)))
        ELSE None

(***************************************************************************)
(* Values and cells.                                                       *)
(***************************************************************************)
\* ExcelValue: the variant's tag and its payload
Val(tag, b, s, n) == [tag |-> tag, b |-> b, s |-> s, n |-> n, date |-> <<>>]

\* a Date, Time or DateTime: the chrono value it holds, and the serial it
\* was converted from
Temporal(tag, num, date) == [Val(tag, FALSE, <<>>, num) EXCEPT !.date = date]

ValNone == Val("None", FALSE, <<>>, F64Zero)

ValString(s) == Val("String", FALSE, s, F64Zero)

ValBool(b) == Val("Bool", b, <<>>, F64Zero)

ValError(s) == Val("Error", FALSE, s, F64Zero)

ValNumber(n) == Val("Number", FALSE, <<>>, n)

\* a cell that keeps the type of the cell read before it
stale_cell ==
    [value |-> ValNone, formula |-> <<>>, reference |-> <<>>,
     style |-> <<>>, cell_type |-> <<"s">>, raw_value |-> <<>>]

new_cell ==
    [value |-> ValNone, formula |-> <<>>, reference |-> <<>>,
     style |-> <<>>, cell_type |-> <<>>, raw_value |-> <<>>]

\* the cell new_cell() gives with the reference of column n, row this_row
RefCell(n, this_row) ==
    [new_cell EXCEPT !.reference = unwrap(num2col(n)) \o to_string(this_row)]

Row(cells, num) == [cells |-> cells, num |-> num]

\* empty_row numbering the row one past the row asked for
empty_row_next_number(cols, this_row) ==
    Some(Row(IF cols = 0 THEN <<>> ELSE [n \in 1..cols |-> RefCell(n, this_row)],
             this_row + 1))

empty_row(cols, this_row) ==
    Some(Row(IF cols = 0 THEN <<>> ELSE [n \in 1..cols |-> RefCell(n, this_row)],
             this_row))

\* is_date with "Red" guarding every test, not only the one for 'd'
is_date_red_guards_all(style) ==
    /\ ~contains_str(style, <<"R","e","d">>)
    /\ \/ contains_char(style, "d")
       \/ contains_char(style, "m")
       \/ contains_char(style, "y")

is_date(style) ==
    LET is_d == style = <<"d">>
        is_like_d_and_not_like_red ==
            contains_char(style, "d") /\ ~contains_str(style, <<"R","e","d">>)
        is_like_m == contains_char(style, "m")
    IN  IF is_d \/ is_like_d_and_not_like_red \/ is_like_m THEN TRUE
        ELSE contains_char(style, "y")

IsLeap(y) == y % 4 = 0 /\ (y % 100 # 0 \/ y % 400 = 0)

YearLen(y) == IF IsLeap(y) THEN 366 ELSE 365

MonthLen(y, m) ==
    IF m = 2 THEN (IF IsLeap(y) THEN 29 ELSE 28)
    ELSE IF m \in {4, 6, 9, 11} THEN 30
    ELSE 31

\* the calendar date d days after 1 January of year y: <<year, month, day>>
RECURSIVE DateAfter(_, _, _)
DateAfter(y, m, d) ==
    IF m = 1 /\ d >= YearLen(y) THEN DateAfter(y + 1, 1, d - YearLen(y))
    ELSE IF d >= MonthLen(y, m) THEN DateAfter(y, m + 1, d - MonthLen(y, m))
    ELSE <<y, m, d + 1>>

\* the NaiveDate of an integral serial >= 1 under the 1900 date system:
\* serial 1 is 1900-01-01, and from serial 60 on the day 1900-02-29 that
\* the producer counts is skipped, so that serial 61 is 1900-03-01
SerialDate(serial) ==
    DateAfter(1900, 1, IF serial < 60 THEN serial - 1 ELSE serial - 2)

RECURSIVE Pow10(_)
Pow10(k) == IF k = 0 THEN 1 ELSE 10 * Pow10(k - 1)

\* the seconds of the day of a fraction given by its decimal digits
DaySeconds(frac) == (DigitsValue(frac, 0) * 86400) \div Pow10(Len(frac))

\* the NaiveTime of a fraction of a day: <<hour, minute, second>>
DayTime(frac) ==
    LET secs == DaySeconds(frac)
    IN  <<secs \div 3600, (secs \div 60) % 60, secs % 60>>

\* utils::excel_number_to_date under the 1900 date system: the variant by
\* the serial's integer and fractional part, with the NaiveDate, NaiveTime
\* or NaiveDateTime (<<year, month, day, hour, minute, second>>) it holds
excel_number_to_date(num) ==
    IF num.neg \/ (num.int = 0 /\ num.frac = <<>>) THEN ValNumber(num)
    ELSE IF num.frac = <<>> THEN Temporal("Date", num, SerialDate(num.int))
    ELSE IF num.int = 0 THEN Temporal("Time", num, DayTime(num.frac))
    ELSE Temporal("DateTime", num, SerialDate(num.int) \o DayTime(num.frac))

\* the match on the DateConversion with Time taken for a DateTime
DateValue_time_as_datetime(conv) ==
    IF conv.tag = "Date" THEN Temporal("Date", conv.n, conv.date)
    ELSE IF conv.tag \in {"DateTime", "Time"}
    THEN Temporal("DateTime", conv.n, conv.date)
    ELSE ValNumber(conv.n)

\* the match on the DateConversion: the ExcelValue of each variant
DateValue(conv) ==
    IF conv.tag = "Date" THEN Temporal("Date", conv.n, conv.date)
    ELSE IF conv.tag = "DateTime" THEN Temporal("DateTime", conv.n, conv.date)
    ELSE IF conv.tag = "Time" THEN Temporal("Time", conv.n, conv.date)
    ELSE ValNumber(conv.n)

(***************************************************************************)
(* The workbook's tables, borrowed by the SheetReader, and the worksheet   *)
(* XML: a dimension element, then row elements with their c elements.      *)
(***************************************************************************)
\* the shared-string table (three entries)
strings == << <<"f","o","o">>, <<"B","i","t">>, <<"a","\"","b">> >>

\* the style table: General, mm-dd-yy, a colour format, a day format
styles == << <<"G","e","n","e","r","a","l">>,
             <<"m","m","-","d","d","-","y","y">>,
             <<"0",";","[","R","e","d","]","0">>,
             <<"d">> >>

\* a c element: its r, t and s attributes (t and s optional), the text of
\* its f child and the text of its v or t child (empty: no text event)
SrcCell(r, t, s, f, v) == [r |-> r, t |-> t, s |-> s, f |-> f, v |-> v]

DimensionEvent(ref) == [kind |-> "dimension", ref |-> ref, r |-> <<>>, cells |-> <<>>]

RowEvent(r, cells) == [kind |-> "row", ref |-> <<>>, r |-> r, cells |-> cells]

VARIABLES
    events,     \* the worksheet part: the elements the reader will deliver
    pos,        \* how many of them the reader has delivered
    want_row,   \* RowIter.want_row
    next_row,   \* RowIter.next_row: the one-slot look-ahead buffer
    num_cols,   \* RowIter.num_cols
    num_rows,   \* RowIter.num_rows
    done_file,  \* RowIter.done_file
    out,        \* the items next() has returned so far, in order
    nones,      \* how many times next() has returned None
    panicked    \* next() aborted (an unwrap or an index out of bounds)

\* A function of the crate that keeps no state is called on an argument:
VARIABLES
    arg,        \* the argument, with the kind of call it is for
    rets        \* what the calls made on it so far returned, in order

iter_vars == <<events, pos, want_row, next_row, num_cols, num_rows, done_file,
               out, nones, panicked>>

fn_vars == <<arg, rets>>

\* Worksheet::read_to_buffer runs its own reader over the worksheet:
VARIABLES
    buf         \* its local variables and how far its reader has come

vars == <<iter_vars, fn_vars, buf>>

(***************************************************************************)
(* The event handlers of RowIter::next.                                    *)
(***************************************************************************)
Panic == [panic |-> TRUE, value |-> ValNone]

Ok(v) == [panic |-> FALSE, value |-> v]

\* the text of a cell of type "s" taken literally, the table not consulted
SharedString_literal(raw_value) == Ok(ValString(raw_value))

\* the shared string a cell of type "s" resolves to
SharedString(raw_value) ==
    LET p == parse_usize(raw_value)
    IN  IF is_some(p)
        THEN IF unwrap(p) < Len(strings)
             THEN Ok(ValString(strings[unwrap(p) + 1]))
             ELSE Panic
        ELSE Ok(ValString(raw_value))

\* the value by the style first: a date style converts every text that is
\* a number, whatever the declared type
TextValue_style_first(cell_type, style, raw_value) ==
    IF is_date(style) /\ is_some(parse_f64(raw_value))
    THEN Ok(excel_number_to_date(unwrap(parse_f64(raw_value))))
    ELSE IF cell_type = <<"b">> THEN Ok(ValBool(raw_value # <<"0">>))
    ELSE IF cell_type = <<"e">> THEN Ok(ValError(raw_value))
    ELSE IF cell_type = <<"b","l">> THEN Ok(ValNone)
    ELSE IF cell_type \in {<<"s">>, <<"s","t","r">>,
                           <<"i","n","l","i","n","e","S","t","r">>}
    THEN Ok(ValString(raw_value))
    ELSE IF is_some(parse_f64(raw_value))
    THEN Ok(ValNumber(unwrap(parse_f64(raw_value))))
    ELSE Panic

\* Event::Text in a value: the value by the declared type, then the style
TextValue(cell_type, style, raw_value) ==
    IF cell_type = <<"s">> THEN SharedString(raw_value)
    ELSE IF cell_type \in {<<"s","t","r">>, <<"i","n","l","i","n","e","S","t","r">>}
    THEN Ok(ValString(raw_value))
    ELSE IF cell_type = <<"b">>
    THEN Ok(ValBool(raw_value # <<"0">>))
    ELSE IF cell_type = <<"b","l">> THEN Ok(ValNone)
    ELSE IF cell_type = <<"e">> THEN Ok(ValError(raw_value))
    ELSE LET num == parse_f64(raw_value)
         IN  IF ~is_some(num) THEN Panic
             ELSE IF is_date(style)
             THEN Ok(DateValue(excel_number_to_date(unwrap(num))))
             ELSE Ok(ValNumber(unwrap(num)))

\* Event::Start of a c element: the attributes r, t and s
CellStart(src) ==
    LET num == IF is_some(src.s) THEN parse_usize(unwrap(src.s)) ELSE None
    IN  [new_cell EXCEPT
            !.reference = src.r,
            !.cell_type = IF is_some(src.t) THEN unwrap(src.t) ELSE @,
            !.style = IF is_some(num) /\ unwrap(num) < Len(styles)
                      THEN styles[unwrap(num) + 1] ELSE @]

\* a c element from its start to the event before its end: the text of f
\* goes to the formula, the text of v to raw_value and value
ReadCell(src) ==
    LET c == [CellStart(src) EXCEPT !.formula = src.f]
        tv == TextValue(c.cell_type, c.style, src.v)
    IN  IF src.v = <<>> THEN [panic |-> FALSE, cell |-> c]
        ELSE [panic |-> tv.panic,
              cell |-> [c EXCEPT !.raw_value = src.v, !.value = tv.value]]

\* the cells new_cell() gives for the columns from .. to of row r
Fillers(from, to, r) ==
    IF to < from THEN <<>>
    ELSE [n \in 1..(to - from + 1) |-> RefCell(from + n - 1, r)]

\* the cell pushed with no cell filling the gap before it
CellEnd_unfilled(row, c) == row \o <<c>>

\* Event::End of a c element: the gap before the cell is filled (after the
\* row's last cell, or from column 1 when the row is empty), then the cell
\* is pushed
CellEnd(row, c) ==
    IF row # <<>>
    THEN LET last_col == coordinates(row[Len(row)].reference)[1]
             this == coordinates(c.reference)
         IN  row \o Fillers(last_col + 1, this[1] - 1, this[2]) \o <<c>>
    ELSE LET this == coordinates(c.reference)
         IN  Fillers(1, this[1] - 1, this[2]) \o <<c>>

RECURSIVE PushCells(_, _)
PushCells(cells, row) ==
    IF cells = <<>> THEN [panic |-> FALSE, row |-> row]
    ELSE LET rc == ReadCell(Head(cells))
         IN  IF rc.panic THEN [panic |-> TRUE, row |-> row]
             ELSE PushCells(Tail(cells), CellEnd(row, rc.cell))

Min(a, b) == IF a <= b THEN a ELSE b

Max(a, b) == IF a >= b THEN a ELSE b

\* the row as its last cell left it, not padded
RowEnd_unpadded(row, this_row, cols) == Row(row, this_row)

\* Event::End of a row element: the row padded to the column count
RowEnd(row, this_row, cols) ==
    Row(row \o Fillers(Len(row) + 1, Max(cols, Len(row)), this_row), this_row)

\* the loop taking the ref "A1" as a used area of one row and one column
RECURSIVE Scan_taking_A1(_, _, _)
Scan_taking_A1(p, cols, rows) ==
    IF p >= Len(events) THEN [kind |-> "eof", pos |-> p, cols |-> cols, rows |-> rows]
    ELSE LET e == events[p + 1]
         IN  IF e.kind = "dimension"
             THEN IF e.ref # <<"A","1">>
                  THEN Scan_taking_A1(p + 1, used_area(e.ref)[2], used_area(e.ref)[1])
                  ELSE Scan_taking_A1(p + 1, 1, 1)
             ELSE [kind |-> "row", pos |-> p + 1, cols |-> cols, rows |-> rows]

\* the loop of next() over the events that do not end the call: a
\* dimension sets the used area unless its ref is "A1"
RECURSIVE Scan(_, _, _)
Scan(p, cols, rows) ==
    IF p >= Len(events) THEN [kind |-> "eof", pos |-> p, cols |-> cols, rows |-> rows]
    ELSE LET e == events[p + 1]
         IN  IF e.kind = "dimension"
             THEN IF e.ref # <<"A","1">>
                  THEN Scan(p + 1, used_area(e.ref)[2], used_area(e.ref)[1])
                  ELSE Scan(p + 1, cols, rows)
             ELSE [kind |-> "row", pos |-> p + 1, cols |-> cols, rows |-> rows]

(***************************************************************************)
(* The worksheets the iteration is checked on.                             *)
(***************************************************************************)
CellRef(col, r) == unwrap(num2col(col)) \o to_string(r)

\* a cell of the structural families: a number in the odd columns, an
\* inline string in the even ones, the column number as its text
PlainCell(col, r) ==
    SrcCell(CellRef(col, r),
            IF col % 2 = 0 THEN Some(<<"s","t","r">>) ELSE None,
            None, <<>>, to_string(col))

PlainRow(r, layout) ==
    RowEvent(to_string(r), [i \in 1..Len(layout) |-> PlainCell(layout[i], r)])

SeqsUpTo(S, n) == UNION {[1..k -> S] : k \in 0..n}

RangeRef(col, r) == <<"A","1",":">> \o CellRef(col, r)

WithDimension(dim, rows) ==
    IF is_some(dim) THEN <<DimensionEvent(unwrap(dim))>> \o rows ELSE rows

\* row numbering: row elements in any order of row numbers, with no cell,
\* a cell in column A or a cell in column B; any declared used area
RowFamily ==
    LET elems == {PlainRow(r, l) : r \in 1..MaxRowNum, l \in {<<>>, <<1>>, <<2>>}}
        dims == {None, Some(<<"A","1">>), Some(<<"B","2">>)}
                \cup {Some(RangeRef(c, r)) : c \in 1..2, r \in 1..MaxRowNum}
    IN  {WithDimension(d, rows) : d \in dims, rows \in SeqsUpTo(elems, MaxRowElems)}

\* a row element numbered r whose cells carry the row number ref_row in
\* their references
StrayRow(r, ref_row, layout) ==
    RowEvent(to_string(r), [i \in 1..Len(layout) |-> PlainCell(layout[i], ref_row)])

\* cell layout: one row element, numbered 1 or 2, with cells in any order
\* of columns, their references carrying row number 1 or 2; a used area of
\* two rows and any number of columns, or none
CellFamily ==
    LET dims == {None} \cup {Some(RangeRef(c, 2)) : c \in 1..MaxCol}
    IN  {WithDimension(d, <<StrayRow(r, ref_row, l)>>) :
            d \in dims, r \in 1..2, ref_row \in 1..2,
            l \in SeqsUpTo(1..MaxCol, MaxCells)}

CellTypes ==
    {None, Some(<<"s">>), Some(<<"s","t","r">>),
     Some(<<"i","n","l","i","n","e","S","t","r">>), Some(<<"b">>),
     Some(<<"b","l">>), Some(<<"e">>), Some(<<"n">>)}

CellStyles == {None, Some(<<"0">>), Some(<<"1">>), Some(<<"2">>), Some(<<"9">>)}

CellTexts ==
    {<<>>, <<"0">>, <<"1">>, <<"2">>, <<"3">>, <<"+","1">>, <<"1",".","5">>,
     <<"6","1">>, <<"x">>, <<"-","1">>}

\* cell values: a first row whose cell A1 has any type, style and text and
\* whose cell B1 is plain, then a plain second row
ValueFamily ==
    {<<RowEvent(<<"1">>, <<SrcCell(<<"A","1">>, t, s, f, v), PlainCell(2, 1)>>),
       PlainRow(2, <<1>>)>> :
        t \in CellTypes, s \in CellStyles, v \in CellTexts,
        f \in {<<>>, <<"B","1">>}}

Worksheets == RowFamily \cup CellFamily \cup ValueFamily

(***************************************************************************)
(* The iterator: Worksheet::rows constructs it, each action is one call of *)
(* RowIter::next along one of its paths.                                   *)
(***************************************************************************)
Init ==
    /\ events \in Worksheets
    /\ pos = 0
    /\ want_row = 1
    /\ next_row = None
    /\ num_cols = 0
    /\ num_rows = 0
    /\ done_file = FALSE
    /\ out = <<>>
    /\ nones = 0
    /\ panicked = FALSE
    /\ arg = [kind |-> "none"]
    /\ rets = <<>>
    /\ buf = [phase |-> "idle"]

\* the caller may call next(): the iterator has not aborted, and the run
\* is within the bounds of the model
Callable == ~panicked /\ Len(out) < MaxCalls /\ nones < MaxNones

\* an item next() returned: the row, the path that produced it, the column
\* count when it was returned, the event of its row element (0: synthetic)
\* and the number of the row held in the buffer (0: none)
Item(row, kind, cols, src, ahead) ==
    [row |-> row, kind |-> kind, cols |-> cols, src |-> src, ahead |-> ahead]

Yield(item) == out' = Append(out, item) /\ UNCHANGED <<nones, panicked>>

\* the buffered row dropped when its turn comes: an empty row is returned
\* in its place
NextBuffered_dropping_row ==
    /\ Callable
    /\ is_some(next_row)
    /\ LET row_num == unwrap(next_row).num
           current_row == want_row
       IN  /\ want_row' = want_row + 1
           /\ IF row_num = current_row
              THEN /\ next_row' = None
                   /\ Yield(Item(unwrap(empty_row(num_cols, current_row)),
                                 "buffered", num_cols, 0, 0))
              ELSE /\ next_row' = next_row
                   /\ Yield(Item(unwrap(empty_row(num_cols, current_row)),
                                 "gap", num_cols, 0, row_num))
    /\ UNCHANGED <<fn_vars, buf, events, pos, num_cols, num_rows, done_file>>

\* a row is buffered: it is returned when it is the row wanted, and an
\* empty row is returned otherwise
NextBuffered ==
    /\ Callable
    /\ is_some(next_row)
    /\ LET row_num == unwrap(next_row).num
           current_row == want_row
       IN  /\ want_row' = want_row + 1
           /\ IF row_num = current_row
              THEN /\ next_row' = None
                   /\ Yield(Item(unwrap(next_row), "buffered", num_cols, pos, 0))
              ELSE /\ next_row' = next_row
                   /\ Yield(Item(unwrap(empty_row(num_cols, current_row)),
                                 "gap", num_cols, 0, row_num))
    /\ UNCHANGED <<fn_vars, buf, events, pos, num_cols, num_rows, done_file>>

\* rows are owed until want_row is past the used area by two
FillWanted_past_used_area == done_file /\ want_row <= num_rows + 1

\* the file is done and rows of the used area are still owed
FillWanted == done_file /\ want_row < num_rows

NextFill ==
    /\ Callable
    /\ ~is_some(next_row)
    /\ FillWanted
    /\ want_row' = want_row + 1
    /\ Yield(Item(unwrap(empty_row(num_cols, (want_row + 1) - 1)),
                  "fill", num_cols, 0, 0))
    /\ UNCHANGED <<fn_vars, buf, events, pos, next_row, num_cols, num_rows, done_file>>

\* reading without looking at the buffer first
Reading_while_buffered == Callable /\ ~FillWanted

Reading == Callable /\ ~is_some(next_row) /\ ~FillWanted

\* the events are read up to the end of a row element
NextReadRow ==
    /\ Reading
    /\ LET sc == Scan(pos, num_cols, num_rows)
       IN  /\ sc.kind = "row"
           /\ LET e == events[sc.pos]
                  this_row == unwrap(parse_usize(e.r))
                  asm == PushCells(e.cells, <<>>)
                  cols == Max(sc.cols, Len(asm.row))
                  row == RowEnd(asm.row, this_row, sc.cols)
              IN  /\ ~asm.panic
                  /\ pos' = sc.pos
                  /\ num_cols' = cols
                  /\ num_rows' = sc.rows
                  /\ want_row' = want_row + 1
                  /\ IF this_row = want_row
                     THEN /\ next_row' = next_row
                          /\ Yield(Item(row, "physical", cols, sc.pos, 0))
                     ELSE /\ next_row' = Some(row)
                          /\ Yield(Item(unwrap(empty_row(cols, want_row)),
                                        "gap", cols, 0, this_row))
    /\ UNCHANGED <<fn_vars, buf, events, done_file>>

\* a cell of the row element makes next() abort
NextReadPanic ==
    /\ Reading
    /\ LET sc == Scan(pos, num_cols, num_rows)
       IN  /\ sc.kind = "row"
           /\ PushCells(events[sc.pos].cells, <<>>).panic
           /\ pos' = sc.pos
           /\ num_cols' = sc.cols
           /\ num_rows' = sc.rows
    /\ panicked' = TRUE
    /\ UNCHANGED <<fn_vars, buf, events, want_row, next_row, done_file, out, nones>>

\* the end of the file, with the rows counted from 1 again after None
NextReadEof_counting_again ==
    /\ Reading
    /\ LET sc == Scan(pos, num_cols, num_rows)
       IN  /\ sc.kind = "eof"
           /\ pos' = sc.pos
           /\ num_cols' = sc.cols
           /\ num_rows' = sc.rows
           /\ IF (want_row + 1) - 1 < sc.rows
              THEN /\ want_row' = want_row + 1
                   /\ done_file' = TRUE
                   /\ Yield(Item(unwrap(empty_row(sc.cols, (want_row + 1) - 1)),
                                 "fill", sc.cols, 0, 0))
              ELSE /\ want_row' = 1
                   /\ done_file' = done_file
                   /\ nones' = nones + 1
                   /\ UNCHANGED <<out, panicked>>
    /\ UNCHANGED <<fn_vars, buf, events, next_row>>

\* the events are read up to the end of the file
NextReadEof ==
    /\ Reading
    /\ LET sc == Scan(pos, num_cols, num_rows)
       IN  /\ sc.kind = "eof"
           /\ pos' = sc.pos
           /\ num_cols' = sc.cols
           /\ num_rows' = sc.rows
           /\ want_row' = want_row + 1
           /\ IF (want_row + 1) - 1 < sc.rows
              THEN /\ done_file' = TRUE
                   /\ Yield(Item(unwrap(empty_row(sc.cols, (want_row + 1) - 1)),
                                 "fill", sc.cols, 0, 0))
              ELSE /\ done_file' = done_file
                   /\ nones' = nones + 1
                   /\ UNCHANGED <<out, panicked>>
    /\ UNCHANGED <<fn_vars, buf, events, next_row>>

Next ==
    \/ NextBuffered
    \/ NextFill
    \/ NextReadRow
    \/ NextReadPanic
    \/ NextReadEof

Spec == Init /\ [][Next]_vars

(***************************************************************************)
(* The column codec of src/src/sxl.rs: col_num_to_letter and               *)
(* col_letter_to_num, with the 16-bit accumulator of the latter.  An       *)
(* arithmetic overflow panics in a build with overflow checks and wraps in *)
(* a build without them.                                                   *)
(***************************************************************************)
\* the values of a u16: 0 .. U16 - 1
U16 == 65536

\* the code point of a character of the model
CodeOf(c) ==
    IF is_ascii_uppercase(c) THEN 64 + LetterVal(c)
    ELSE IF is_ascii_digit(c) THEN 48 + DigitVal(c)
    ELSE IF c = ";" THEN 59
    ELSE IF c = "[" THEN 91
    ELSE 96 + (CHOOSE k \in 1..26 : LowerLetters[k] = c)

\* the character (65 + r) as char, r in 0 .. 25
CharOf(code) == Letters[code - 64]

Overflows(x) == x < 0 \/ x >= U16

U16Wrap(x) == (x + U16) % U16

\* what a call returned: it panicked, or it returned an Option
FnRet(panic, value) == [panic |-> panic, value |-> value]

\* the digits of n in base 26 with a zero digit: n mod 26, then n div 26
RECURSIVE LetterPushes_with_zero(_)
LetterPushes_with_zero(n) ==
    IF n > 0
    THEN <<CharOf(65 + (n % 26))>> \o LetterPushes_with_zero(n \div 26)
    ELSE <<>>

\* the characters pushed by the loop of col_num_to_letter, in push order
RECURSIVE LetterPushes(_)
LetterPushes(n) ==
    IF n > 0
    THEN LET r == (n - 1) % 26
         IN  <<CharOf(65 + r)>> \o LetterPushes((n - 1) \div 26)
    ELSE <<>>

\* the characters left in push order
Unreversed(s) == s

\* s.chars().rev().collect()
Reverse(s) == [i \in 1..Len(s) |-> s[Len(s) + 1 - i]]

col_num_to_letter(n) ==
    IF n > XL_MAX_COL \/ n < XL_MIN_COL THEN FnRet(FALSE, None)
    ELSE FnRet(FALSE, Some(Reverse(LetterPushes(n))))

\* num * 26 + ((c as u16) - ('A' as u16)) + 1 in u16 arithmetic; -1: the
\* build checks overflow and one of the operations overflowed
LetterStep(num, c, checks) ==
    LET m == U16Wrap(num * 26)
        d == U16Wrap(CodeOf(c) - CodeOf("A"))
        a == U16Wrap(m + d)
    IN  IF checks /\ (\/ Overflows(num * 26)
                      \/ Overflows(CodeOf(c) - CodeOf("A"))
                      \/ Overflows(m + d)
                      \/ Overflows(a + 1))
        THEN -1
        ELSE U16Wrap(a + 1)

\* the loop of col_letter_to_num over the characters
RECURSIVE LetterFold(_, _, _)
LetterFold(s, num, checks) ==
    IF s = <<>> THEN num
    ELSE LET n == LetterStep(num, Head(s), checks)
         IN  IF n = -1 THEN -1 ELSE LetterFold(Tail(s), n, checks)

\* Regex::new(r"[A-Z]+").is_match: some character of the text is in A-Z
is_match(letter) == \E i \in 1..Len(letter) : is_ascii_uppercase(letter[i])

\* col_letter_to_num on the text as given, not in upper case
col_letter_to_num_cased(s, checks) ==
    IF ~is_match(s) THEN FnRet(FALSE, None)
    ELSE LET num == LetterFold(s, 0, checks)
         IN  IF num = -1 THEN FnRet(TRUE, None)
             ELSE IF num > XL_MAX_COL \/ num < XL_MIN_COL
             THEN FnRet(FALSE, None)
             ELSE FnRet(FALSE, Some(num))

col_letter_to_num(s, checks) ==
    LET letter == to_uppercase(s)
    IN  IF ~is_match(letter) THEN FnRet(FALSE, None)
        ELSE LET num == LetterFold(letter, 0, checks)
             IN  IF num = -1 THEN FnRet(TRUE, None)
                 ELSE IF num > XL_MAX_COL \/ num < XL_MIN_COL
                 THEN FnRet(FALSE, None)
                 ELSE FnRet(FALSE, Some(num))

\* longest text of letters col_letter_to_num is called on
MaxLetters == 4
\* longest text of letters, digits and punctuation it is called on
MaxMixed == 2

LetterChars == {"A", "B", "D", "E", "F", "X", "a", "b"}

MixedChars == LetterChars \cup {"1", "2", ";", "["}

\* the column numbers col_num_to_letter is called on: every column, the
\* numbers next to them, and the largest u16
NumInputs == 0..(XL_MAX_COL + 1) \cup {U16 - 1}

StrInputs == SeqsUpTo(LetterChars, MaxLetters) \cup SeqsUpTo(MixedChars, MaxMixed)

NumArg(n) == [kind |-> "num", n |-> n, s |-> <<>>]

StrArg(s) == [kind |-> "str", n |-> 0, s |-> s]

\* the iterator is not part of the call of a function: no worksheet, as
\* constructed
IterIdle ==
    /\ events = <<>>
    /\ pos = 0
    /\ want_row = 1
    /\ next_row = None
    /\ num_cols = 0
    /\ num_rows = 0
    /\ done_file = FALSE
    /\ out = <<>>
    /\ nones = 0
    /\ panicked = FALSE
    /\ buf = [phase |-> "idle"]

CodecInit ==
    /\ IterIdle
    /\ arg \in {NumArg(n) : n \in NumInputs} \cup {StrArg(s) : s \in StrInputs}
    /\ rets = <<>>

\* col_num_to_letter(n)
NumToLetter ==
    /\ arg.kind = "num"
    /\ rets = <<>>
    /\ rets' = <<col_num_to_letter(arg.n)>>
    /\ UNCHANGED <<iter_vars, arg, buf>>

\* col_letter_to_num on the letters col_num_to_letter returned
LetterBackToNum ==
    /\ arg.kind = "num"
    /\ Len(rets) = 1
    /\ is_some(rets[1].value)
    /\ \E checks \in BOOLEAN :
           rets' = Append(rets, col_letter_to_num(unwrap(rets[1].value), checks))
    /\ UNCHANGED <<iter_vars, arg, buf>>

\* col_letter_to_num(s)
LetterToNum ==
    /\ arg.kind = "str"
    /\ rets = <<>>
    /\ \E checks \in BOOLEAN : rets' = <<col_letter_to_num(arg.s, checks)>>
    /\ UNCHANGED <<iter_vars, arg, buf>>

\* col_num_to_letter on the number col_letter_to_num returned
NumBackToLetter ==
    /\ arg.kind = "str"
    /\ Len(rets) = 1
    /\ ~rets[1].panic
    /\ is_some(rets[1].value)
    /\ rets' = Append(rets, col_num_to_letter(unwrap(rets[1].value)))
    /\ UNCHANGED <<iter_vars, arg, buf>>

CodecNext ==
    \/ NumToLetter
    \/ LetterBackToNum
    \/ LetterToNum
    \/ NumBackToLetter

CodecSpec == CodecInit /\ [][CodecNext]_vars

(***************************************************************************)
(* is_date called on number-format codes.                                  *)
(***************************************************************************)
\* longest format code made of the characters below
MaxCode == 4

CodeChars == {"d", "m", "y", "D", "R", "e", "0"}

\* format codes of workbooks
NamedCodes ==
    {<<"G","e","n","e","r","a","l">>, <<"0",".","0","0">>, <<"@">>,
     <<"m","m","-","d","d","-","y","y">>, <<"0",";","[","R","e","d","]","0">>,
     <<"[","R","e","d","]","y","y","y","y">>, <<"h",":","m","m">>}

CodeInputs == SeqsUpTo(CodeChars, MaxCode) \cup NamedCodes

CodeArg(s) == [kind |-> "code", n |-> 0, s |-> s]

DateInit ==
    /\ IterIdle
    /\ arg \in {CodeArg(s) : s \in CodeInputs}
    /\ rets = <<>>

\* is_date(code)
CallIsDate ==
    /\ arg.kind = "code"
    /\ rets = <<>>
    /\ rets' = <<FnRet(FALSE, Some(is_date(arg.s)))>>
    /\ UNCHANGED <<iter_vars, arg, buf>>

DateNext == CallIsDate

DateSpec == DateInit /\ [][DateNext]_vars

(***************************************************************************)
(* Worksheet::read_to_buffer: the same events, written as lines of         *)
(* comma-separated fields into out_bytes.  The texts of the model hold no  *)
(* entity reference, so unescape_and_decode leaves them as they are, and   *)
(* no byte outside printable ASCII other than the control characters       *)
(* named below.                                                            *)
(***************************************************************************)
\* u8::escape_ascii: the bytes written for one byte
escape_default(c) ==
    IF c = "\"" THEN <<"\\", "\"">>
    ELSE IF c = "'" THEN <<"\\", "'">>
    ELSE IF c = "\\" THEN <<"\\", "\\">>
    ELSE IF c = "\n" THEN <<"\\", "n">>
    ELSE IF c = "\t" THEN <<"\\", "t">>
    ELSE IF c = "\r" THEN <<"\\", "r">>
    ELSE <<c>>

\* <[u8]>::escape_ascii on the bytes of a text event
RECURSIVE escape_ascii(_)
escape_ascii(e) ==
    IF e = <<>> THEN <<>>
    ELSE escape_default(Head(e)) \o escape_ascii(Tail(e))

\* the flat_map over the bytes: a '"' becomes two, any other byte itself
RECURSIVE DoubleQuotes(_)
DoubleQuotes(bytes) ==
    IF bytes = <<>> THEN <<>>
    ELSE (IF Head(bytes) = "\"" THEN <<"\"", "\"">> ELSE <<Head(bytes)>>)
         \o DoubleQuotes(Tail(bytes))

Quoted(bytes) == <<"\"">> \o bytes \o <<"\"">>

Commas(n) == [i \in 1..n |-> ","]

\* the decimal digits of n, zero-padded to the width
Pad(n, width) ==
    LET d == to_string(n)
    IN  [i \in 1..(width - Len(d)) |-> "0"] \o d

\* NaiveDate's Display and "%Y-%m-%d"
DateText(date) ==
    Pad(date[1], 4) \o <<"-">> \o Pad(date[2], 2) \o <<"-">> \o Pad(date[3], 2)

\* "%H:%M:%S"
TimeText(time) ==
    Pad(time[1], 2) \o <<":">> \o Pad(time[2], 2) \o <<":">> \o Pad(time[3], 2)

\* Display of an f64
NumberText(num) ==
    (IF num.neg THEN <<"-">> ELSE <<>>) \o to_string(num.int)
    \o (IF num.frac = <<>> THEN <<>> ELSE <<".">> \o num.frac)

\* the date_string of a serial: a Time is a NaiveTime, which has no date
\* to format with "%Y-%m-%d" (to_string panics)
date_string(num) ==
    LET conv == excel_number_to_date(num)
    IN  IF conv.tag = "Date" THEN FnRet(FALSE, DateText(conv.date))
        ELSE IF conv.tag = "DateTime"
        THEN FnRet(FALSE, DateText(conv.date) \o <<" ">>
                          \o TimeText(SubSeq(conv.date, 4, 6)))
        ELSE IF conv.tag = "Time" THEN FnRet(TRUE, <<>>)
        ELSE FnRet(FALSE, <<"I","n","v","a","l","i","d"," ","d","a","t","e"," ">>
                          \o NumberText(num))

\* the local variables on entry, before the loop, in a build with or
\* without overflow checks; pos counts the events handled, cell the c
\* elements handled of the row the reader is in
BufStart(checks) ==
    [phase |-> "loop", checks |-> checks, pos |-> 0, in_row |-> FALSE,
     cell |-> 0, cell_type |-> <<>>, col |-> 0, pushed |-> 0, num_cols |-> 0,
     is_start_row |-> TRUE, cell_style |-> <<>>, out_bytes |-> <<>>,
     panicked |-> FALSE]

\* Event::Empty of the dimension element
BufferDimension(b, ref) == [b EXCEPT !.num_cols = used_area(ref)[2]]

\* Event::Start of a row element
BufferRowStart(b) == [b EXCEPT !.is_start_row = TRUE, !.col = 0]

\* Event::Start of a c element: the style and the type, the commas of the
\* columns skipped since the last cell (a u16 difference), and the comma
\* that separates the cell from the one before
BufferCellStart(b, src) ==
    LET num == IF is_some(src.s) THEN parse_usize(unwrap(src.s)) ELSE None
        new_col == coordinates(src.r)[1]
        diff == U16Wrap(new_col - b.col - 1)
        sep == IF b.is_start_row THEN 0 ELSE 1
    IN  IF b.checks /\ (Overflows(new_col - b.col - 1)
                        \/ Overflows(b.pushed + diff + sep))
        THEN [b EXCEPT !.panicked = TRUE]
        ELSE [b EXCEPT
                !.cell_style = IF is_some(num) /\ unwrap(num) < Len(styles)
                               THEN styles[unwrap(num) + 1] ELSE <<>>,
                !.cell_type = IF is_some(src.t) THEN unwrap(src.t) ELSE @,
                !.col = new_col,
                !.pushed = U16Wrap(@ + diff + sep),
                !.out_bytes = @ \o Commas(diff + sep),
                !.is_start_row = FALSE]

\* Event::Text in a value: what is written for the text e
BufferText(b, e) ==
    LET raw_value == e
        index == parse_usize(raw_value)
        num == parse_f64(raw_value)
        date == date_string(unwrap(num))
    IN  IF b.cell_type = <<"s">>
        THEN IF is_some(index)
             THEN IF unwrap(index) < Len(strings)
                  THEN [b EXCEPT !.out_bytes =
                            @ \o Quoted(DoubleQuotes(strings[unwrap(index) + 1]))]
                  ELSE [b EXCEPT !.panicked = TRUE]
             ELSE [b EXCEPT !.out_bytes = @ \o Quoted(DoubleQuotes(escape_ascii(e)))]
        ELSE IF b.cell_type \in {<<"s","t","r">>,
                                 <<"i","n","l","i","n","e","S","t","r">>}
        THEN [b EXCEPT !.out_bytes = @ \o Quoted(DoubleQuotes(escape_ascii(e)))]
        ELSE IF is_date(b.cell_style)
        THEN IF ~is_some(num) \/ date.panic
             THEN [b EXCEPT !.panicked = TRUE]
             ELSE [b EXCEPT !.out_bytes = @ \o date.value]
        ELSE [b EXCEPT !.out_bytes = @ \o Quoted(escape_ascii(e))]

\* Event::End of a c element
BufferCellEnd(b) == [b EXCEPT !.cell_type = <<"n","o","n","o">>]

\* a c element from its start to its end; an empty text is no text event
BufferCell(b, src) ==
    LET started == BufferCellStart(b, src)
        written == IF src.v = <<>> THEN started ELSE BufferText(started, src.v)
    IN  IF started.panicked THEN started
        ELSE IF written.panicked THEN written
        ELSE BufferCellEnd(written)

\* the end of a row padding up to num_cols, one comma more than the
\* columns need
BufferRowEnd_to_num_cols(b) ==
    LET padding == IF b.pushed < b.num_cols THEN b.num_cols - b.pushed ELSE 0
    IN  [b EXCEPT !.out_bytes = @ \o Commas(padding) \o <<"\n">>,
                  !.is_start_row = TRUE,
                  !.pushed = 0]

\* Event::End of a row element: the commas of the columns after the last
\* cell, up to the u16 bound num_cols - 1, and the newline
BufferRowEnd(b) ==
    LET bound == U16Wrap(b.num_cols - 1)
        padding == IF b.pushed <= b.num_cols /\ b.pushed < bound
                   THEN bound - b.pushed ELSE 0
    IN  IF b.pushed <= b.num_cols /\ b.checks /\ Overflows(b.num_cols - 1)
        THEN [b EXCEPT !.panicked = TRUE]
        ELSE [b EXCEPT !.out_bytes = @ \o Commas(padding) \o <<"\n">>,
                       !.is_start_row = TRUE,
                       !.pushed = 0]

\* the whole loop from the state b on: the state at the return or at the
\* panic
RECURSIVE BufferLoop(_, _)
BufferLoop(b, sheet) ==
    IF b.panicked THEN b
    ELSE IF b.pos = Len(sheet) THEN [b EXCEPT !.phase = "returned"]
    ELSE LET ev == sheet[b.pos + 1]
         IN  IF ev.kind = "dimension"
             THEN BufferLoop([BufferDimension(b, ev.ref) EXCEPT !.pos = @ + 1], sheet)
             ELSE IF ~b.in_row
             THEN BufferLoop([BufferRowStart(b) EXCEPT !.in_row = TRUE, !.cell = 0],
                             sheet)
             ELSE IF b.cell < Len(ev.cells)
             THEN BufferLoop([BufferCell(b, ev.cells[b.cell + 1]) EXCEPT !.cell = @ + 1],
                             sheet)
             ELSE BufferLoop([BufferRowEnd(b) EXCEPT !.in_row = FALSE, !.pos = @ + 1],
                             sheet)

\* read_to_buffer on a worksheet: the bytes returned, or the panic
read_to_buffer(sheet, checks) ==
    LET b == BufferLoop(BufStart(checks), sheet)
    IN  IF b.panicked THEN FnRet(TRUE, <<>>) ELSE FnRet(FALSE, b.out_bytes)

\* widest used area declared to read_to_buffer
MaxBufCol == 3

BufTexts ==
    {<<>>, <<"0">>, <<"2">>, <<"3">>, <<"6","1">>, <<"1",".","5">>,
     <<"0",".","5">>, <<"-","1">>, <<"x">>, <<"a","\"","b">>, <<"i","t","'","s">>}

\* a first row whose first cell, in any column but the last, has any
\* type, style and text, with or without a plain cell in the last column;
\* then a second row of plain cells; the used area declared
BufferSheets ==
    {<<DimensionEvent(RangeRef(MaxBufCol, 2)),
       RowEvent(<<"1">>,
                <<SrcCell(CellRef(c, 1), t, s, <<>>, v)>>
                \o [i \in 1..last |-> PlainCell(MaxBufCol, 1)]),
       PlainRow(2, l)>> :
        c \in 1..(MaxBufCol - 1), t \in CellTypes, s \in CellStyles,
        v \in BufTexts, last \in 0..1,
        l \in {<<>>, <<1>>, <<2, MaxBufCol>>}}

\* layout: a first row of plain cells in any one or two columns, in any
\* order, with or without a second row that is empty or has a cell in
\* column B; any used area declared, the degenerate "A1", or none
LayoutSheets ==
    LET dims == {None, Some(<<"A","1">>)}
                \cup {Some(RangeRef(c, 2)) : c \in 1..MaxBufCol}
        second == {<<>>, <<PlainRow(2, <<>>)>>, <<PlainRow(2, <<2>>)>>}
    IN  {WithDimension(d, <<PlainRow(1, l)>> \o rest) :
            d \in dims, l \in SeqsUpTo(1..MaxBufCol, 2), rest \in second}

BufferInit ==
    /\ events \in BufferSheets \cup LayoutSheets
    /\ pos = 0
    /\ want_row = 1
    /\ next_row = None
    /\ num_cols = 0
    /\ num_rows = 0
    /\ done_file = FALSE
    /\ out = <<>>
    /\ nones = 0
    /\ panicked = FALSE
    /\ arg = [kind |-> "none"]
    /\ rets = <<>>
    /\ buf \in {BufStart(checks) : checks \in BOOLEAN}

\* the loop of read_to_buffer is at its top, the next event to come
InLoop == buf.phase = "loop" /\ ~buf.panicked

\* the loop handles the dimension element
BufDimension ==
    /\ InLoop
    /\ buf.pos < Len(events)
    /\ events[buf.pos + 1].kind = "dimension"
    /\ buf' = [BufferDimension(buf, events[buf.pos + 1].ref) EXCEPT !.pos = @ + 1]
    /\ UNCHANGED <<iter_vars, fn_vars>>

\* the loop handles the start of a row element
BufRowStart ==
    /\ InLoop
    /\ buf.pos < Len(events)
    /\ events[buf.pos + 1].kind = "row"
    /\ ~buf.in_row
    /\ buf' = [BufferRowStart(buf) EXCEPT !.in_row = TRUE, !.cell = 0]
    /\ UNCHANGED <<iter_vars, fn_vars>>

\* the loop handles the next c element of the row, start to end
BufCell ==
    /\ InLoop
    /\ buf.in_row
    /\ buf.cell < Len(events[buf.pos + 1].cells)
    /\ buf' = [BufferCell(buf, events[buf.pos + 1].cells[buf.cell + 1])
                  EXCEPT !.cell = @ + 1]
    /\ UNCHANGED <<iter_vars, fn_vars>>

\* the loop handles the end of the row element
BufRowEnd ==
    /\ InLoop
    /\ buf.in_row
    /\ buf.cell = Len(events[buf.pos + 1].cells)
    /\ buf' = [BufferRowEnd(buf) EXCEPT !.in_row = FALSE, !.pos = @ + 1]
    /\ UNCHANGED <<iter_vars, fn_vars>>

\* Event::Eof: read_to_buffer returns out_bytes
BufEof ==
    /\ InLoop
    /\ ~buf.in_row
    /\ buf.pos = Len(events)
    /\ buf' = [buf EXCEPT !.phase = "returned"]
    /\ UNCHANGED <<iter_vars, fn_vars>>

BufferNext ==
    \/ BufDimension
    \/ BufRowStart
    \/ BufCell
    \/ BufRowEnd
    \/ BufEof

BufferSpec == BufferInit /\ [][BufferNext]_vars

(***************************************************************************)
(* The value of one cell: the match of RowIter::next on the cell's type,   *)
(* style and text, called on date serials.                                 *)
(***************************************************************************)
\* every serial up to this one is tried
MaxSerial == 62

\* the days around the turn of a year and the serials of the workbook of
\* the tests
Serials == 0..MaxSerial \cup {366, 367, 44562, 44633, 44687, 44835}

SerialTexts ==
    {to_string(n) : n \in Serials}
    \cup {to_string(n) \o f : n \in {0, 1, 61, 44562},
                             f \in {<<".","5">>, <<".","2","5">>}}
    \cup {<<"-","1">>, <<"+","1">>, <<"x">>}

CellArg(cell_type, style, text) ==
    [kind |-> "cell", n |-> 0, s |-> text, cell_type |-> cell_type, style |-> style]

ValueInit ==
    /\ IterIdle
    /\ arg \in {CellArg(IF is_some(t) THEN unwrap(t) ELSE <<>>, st, text) :
                   t \in CellTypes,
                   st \in {<<>>} \cup {styles[i] : i \in 1..Len(styles)},
                   text \in SerialTexts}
    /\ rets = <<>>

\* Event::Text in a value, for the cell of the argument
CallTextValue ==
    /\ arg.kind = "cell"
    /\ rets = <<>>
    /\ rets' = <<TextValue(arg.cell_type, arg.style, arg.s)>>
    /\ UNCHANGED <<iter_vars, arg, buf>>

\* Display of an ExcelValue; chrono's Display of a NaiveDate is
\* year-month-day, of a NaiveTime hour:minute:second, of a NaiveDateTime
\* the two with a space between
DisplayValue(v) ==
    IF v.tag = "Bool"
    THEN (IF v.b THEN <<"t","r","u","e">> ELSE <<"f","a","l","s","e">>)
    ELSE IF v.tag = "Date" THEN DateText(v.date)
    ELSE IF v.tag = "DateTime"
    THEN DateText(v.date) \o <<" ">> \o TimeText(SubSeq(v.date, 4, 6))
    ELSE IF v.tag = "Error" THEN <<"#">> \o v.s
    ELSE IF v.tag = "None" THEN <<>>
    ELSE IF v.tag = "Number" THEN NumberText(v.n)
    ELSE IF v.tag = "String" THEN <<"\"">> \o v.s \o <<"\"">>
    ELSE <<"\"">> \o TimeText(v.date) \o <<"\"">>

\* Display of a Cell
DisplayCell(c) == DisplayValue(c.value)

\* Display of a Row: a comma before every cell but the first
RECURSIVE DisplayCells(_, _)
DisplayCells(cells, count) ==
    IF count > Len(cells) THEN <<>>
    ELSE (IF count # 1 THEN <<",">> ELSE <<>>) \o DisplayCell(cells[count])
         \o DisplayCells(cells, count + 1)

DisplayRow(row) == DisplayCells(row.cells, 1)

\* longest row displayed
MaxShown == 3

\* a cell with the value the match gave, or a cell as new_cell() gives it
ShownCell(kind) ==
    IF kind = "value" THEN [new_cell EXCEPT !.value = rets[1].value] ELSE new_cell

\* the value of the cell is displayed
CallDisplayValue ==
    /\ arg.kind = "cell"
    /\ Len(rets) = 1
    /\ ~rets[1].panic
    /\ rets' = Append(rets, [panic |-> FALSE,
                             value |-> DisplayValue(rets[1].value),
                             row |-> Row(<<>>, 0), of |-> "value"])
    /\ UNCHANGED <<iter_vars, arg, buf>>

\* a row of cells with that value and of empty cells is displayed
CallDisplayRow ==
    /\ arg.kind = "cell"
    /\ Len(rets) = 1
    /\ ~rets[1].panic
    /\ \E layout \in SeqsUpTo({"value", "empty"}, MaxShown) :
           LET row == Row([i \in 1..Len(layout) |-> ShownCell(layout[i])], 1)
           IN  rets' = Append(rets, [panic |-> FALSE, value |-> DisplayRow(row),
                                     row |-> row, of |-> "row"])
    /\ UNCHANGED <<iter_vars, arg, buf>>

ValueNext ==
    \/ CallTextValue
    \/ CallDisplayValue
    \/ CallDisplayRow

ValueSpec == ValueInit /\ [][ValueNext]_vars

(***************************************************************************)
(* used_area called on the ref attribute of a dimension element.           *)
(***************************************************************************)
\* the two unwraps of used_area: no column letters, or no row number, after
\* the colon
used_area_panics(used_area_range) ==
    LET end == FirstColon(used_area_range, 1)
    IN  /\ end # -1
        /\ LET corner == SubSeqFrom(used_area_range, end + 2)
               e == FirstNonAlpha(corner, 1)
           IN  \/ col2num(SubSeq(corner, 1, e)) = None
               \/ parse_usize(SubSeqFrom(corner, e + 1)) = None

\* columns and rows of the corners of the ranges
AreaCols == {1, 3, 4, 26, 27}

AreaRows == {1, 3, 9, 10}

\* the text of a cell reference
CornerText(col, row) == ColDigits(col) \o to_string(row)

CornerTexts == {CornerText(c, r) : c \in AreaCols, r \in AreaRows}

\* what stands before the colon: a corner, nothing, or something else
FirstTexts == CornerTexts \cup {<<>>, <<"?">>}

\* a range, with the row and column of the corner it was written from
AreaArg(s, row, col) ==
    [kind |-> "area", n |-> 0, s |-> s, row |-> row, col |-> col]

\* colon-separated ranges
RangeArgs ==
    {AreaArg(first \o <<":">> \o CornerText(c, r), r, c) :
        first \in FirstTexts, c \in AreaCols, r \in AreaRows}

\* refs of a single cell, and an empty one
SingleArgs == {AreaArg(s, 0, 0) : s \in CornerTexts \cup {<<>>}}

\* refs with a colon and no cell after it
BrokenArgs == {AreaArg(s, 0, 0) : s \in {<<"A","1",":">>, <<"A","1",":","9">>}}

AreaInit ==
    /\ IterIdle
    /\ arg \in RangeArgs \cup SingleArgs \cup BrokenArgs
    /\ rets = <<>>

\* used_area(arg)
CallUsedArea ==
    /\ arg.kind = "area"
    /\ rets = <<>>
    /\ rets' = <<IF used_area_panics(arg.s) THEN FnRet(TRUE, <<>>)
                 ELSE FnRet(FALSE, used_area(arg.s))>>
    /\ UNCHANGED <<iter_vars, arg, buf>>

AreaNext == CallUsedArea

AreaSpec == AreaInit /\ [][AreaNext]_vars

(***************************************************************************)
(* What the properties speak about.                                        *)
(***************************************************************************)
\* the positions of the row elements of the worksheet
RowEvents == {p \in 1..Len(events) : events[p].kind = "row"}

RowNum(p) == unwrap(parse_usize(events[p].r))

\* the row elements carry strictly increasing row numbers
AscendingRows == \A p, q \in RowEvents : p < q => RowNum(p) < RowNum(q)

\* the dimension element declares a range (a used area that is not
\* degenerate), of DeclaredRows rows and DeclaredCols columns
HasRange ==
    /\ Len(events) >= 1
    /\ events[1].kind = "dimension"
    /\ contains_char(events[1].ref, ":")

DeclaredRows == used_area(events[1].ref)[1]

DeclaredCols == used_area(events[1].ref)[2]

\* the number of the last row element
LastRowNum == RowNum(CHOOSE p \in RowEvents : \A q \in RowEvents : q <= p)

\* next() has returned None
Ended == nones > 0

Kinds == {out[i].kind : i \in 1..Len(out)}

\* the cells of the row element at p
SrcCells(p) == events[p].cells

\* the columns their references name, in source order
SrcCols(p) == [j \in 1..Len(SrcCells(p)) |-> coordinates(SrcCells(p)[j].r)[1]]

\* the cells of the row element come in strictly increasing column order
AscendingCells(p) ==
    \A j, k \in 1..Len(SrcCells(p)) : j < k => SrcCols(p)[j] < SrcCols(p)[k]

\* the references of its cells carry the row element's own number
OwnRowCells(p) ==
    \A j \in 1..Len(SrcCells(p)) : coordinates(SrcCells(p)[j].r)[2] = RowNum(p)

\* a cell with no value: None, and every string empty but the reference
IsEmptyCell(c) ==
    /\ c.value.tag = "None"
    /\ c.raw_value = <<>>
    /\ c.formula = <<>>
    /\ c.style = <<>>
    /\ c.cell_type = <<>>

\* the references of the row are A{r}, B{r}, ... in order, r its number
WellReferenced(row) ==
    \A k \in 1..Len(row.cells) :
        row.cells[k].reference = unwrap(num2col(k)) \o to_string(row.num)

\* the number of cells the row element at p has when its last cell is
\* pushed, before it is padded
AssembledLen(p) == Len(PushCells(SrcCells(p), <<>>).row)

(***************************************************************************)
(* C1..C10                                                                 *)
(***************************************************************************)
\* C1: the i-th item next() yields has row number i, whether it is a
\* physical row, a buffered row or a synthetic empty row.
C1_RowNumbersContiguous == \A i \in 1..Len(out) : out[i].row.num = i

\* C1 witness: a physical row, a row filling a gap and a buffered row have
\* all been yielded in one iteration.
C1_Witness == {"physical", "gap", "buffered"} \subseteq Kinds

\* The buffered row is behind the row wanted.  next() then takes its first
\* branch on every call: the buffered row's number never equals want_row,
\* which only grows, so each call yields an empty row and none returns
\* None.
Endless == is_some(next_row) /\ unwrap(next_row).num < want_row

\* Once the buffered row is behind, it stays behind, and every call of
\* next() yields one more row.
EndlessStays ==
    [][Endless => (Endless' /\ Len(out') = Len(out) + 1 /\ nones' = nones)]_vars

\* C2 (as claimed): whatever the row elements and the dimension, repeated
\* calls of next() reach end-of-sequence; so no iteration reaches a state
\* from which next() yields synthetic rows for ever.
C2_Terminates == ~Endless

\* C3 (as claimed): with a used area of R rows declared and the last row
\* element numbered L < R, the iteration has yielded exactly R rows when it
\* ends, those after L being the synthetic rows L+1 .. R.
C3_TrailingRowsFilled ==
    (/\ Ended
     /\ HasRange
     /\ RowEvents # {}
     /\ AscendingRows
     /\ LastRowNum < DeclaredRows)
    => /\ Len(out) = DeclaredRows
       /\ \A i \in (LastRowNum + 1)..DeclaredRows : out[i].kind = "fill"

C5_RowsWellReferenced ==
    \A i \in 1..Len(out) :
        /\ Len(out[i].row.cells) = out[i].cols
        /\ WellReferenced(out[i].row)

\* C5 (amended): every row yielded has as many cells as num_cols counts
\* when it is yielded; its references are A{r}, B{r}, ... in order when it
\* is a synthetic row, or comes from a row element whose cells are in
\* strictly increasing column order and carry the row's own number.
C5_OrderedRowsWellReferenced ==
    \A i \in 1..Len(out) :
        /\ Len(out[i].row.cells) = out[i].cols
        /\ (\/ out[i].src = 0
            \/ AscendingCells(out[i].src) /\ OwnRowCells(out[i].src))
           => WellReferenced(out[i].row)

\* C5 witness: a buffered row has been yielded whose row element has a gap
\* before its only cell and fewer cells than the sheet has columns.
C5_Witness ==
    \E i \in 1..Len(out) :
        /\ out[i].kind = "buffered"
        /\ SrcCols(out[i].src) = <<2>>
        /\ out[i].cols > 2
        /\ AscendingCells(out[i].src)
        /\ OwnRowCells(out[i].src)

\* C6 (as claimed): all rows yielded by one iteration have the same number
\* of cells.
C6_Rectangular ==
    \A i, j \in 1..Len(out) : Len(out[i].row.cells) = Len(out[j].row.cells)

\* no row element of the sheet assembles to more cells than the used area
\* declares columns
WithinDeclaredCols ==
    HasRange /\ \A p \in RowEvents : AssembledLen(p) <= DeclaredCols

\* C6 (amended): the rows yielded by one iteration never get shorter; and
\* they all have as many cells as the used area declares columns when no
\* row element reaches past the declared columns.
C6_RectangularWithinUsedArea ==
    /\ \A i, j \in 1..Len(out) :
           i < j => Len(out[i].row.cells) <= Len(out[j].row.cells)
    /\ WithinDeclaredCols =>
           \A i \in 1..Len(out) : Len(out[i].row.cells) = DeclaredCols

\* C6 witness: under a used area no row element reaches past, a synthetic
\* row and a physical row with fewer cells than the declared columns have
\* both been yielded.
C6_Witness ==
    /\ WithinDeclaredCols
    /\ \E i, j \in 1..Len(out) :
           /\ out[i].src = 0
           /\ out[j].src # 0
           /\ AssembledLen(out[j].src) < DeclaredCols

\* C7: a row number with no row element, yielded while a later row is
\* held, is a row of num_cols cells, each without value, type, style,
\* formula and raw text and referenced by its column and that row number;
\* the later row is then yielded at its own number as its row element
\* assembles it.
C7_GapRowsThenLaterRow ==
    \A i \in 1..Len(out) :
        (out[i].kind = "gap" /\ out[i].ahead > i) =>
            /\ out[i].row.num = i
            /\ Len(out[i].row.cells) = out[i].cols
            /\ \A k \in 1..Len(out[i].row.cells) :
                   /\ IsEmptyCell(out[i].row.cells[k])
                   /\ coordinates(out[i].row.cells[k].reference) = <<k, i>>
            /\ Len(out) >= out[i].ahead =>
                   LET later == out[out[i].ahead]
                   IN  /\ later.kind = "buffered"
                       /\ later.row.num = out[i].ahead
                       /\ RowNum(later.src) = out[i].ahead
                       /\ later.row =
                              RowEnd(PushCells(SrcCells(later.src), <<>>).row,
                                     RowNum(later.src), out[i].cols)

\* C7 witness: rows two cells wide or wider have been yielded for a gap,
\* and the later row, which has a cell of its own, after them.
C7_Witness ==
    \E i \in 1..Len(out) :
        /\ out[i].kind = "gap"
        /\ out[i].ahead = 3
        /\ out[i].cols >= 2
        /\ Len(out) >= 3
        /\ out[3].kind = "buffered"
        /\ SrcCells(out[3].src) # <<>>

\* C8: in a row yielded from a row element whose cells are in strictly
\* increasing column order, the cell of column k is at index k (k - 1
\* counting from 0) as it was read, and every column the row element does
\* not name, up to num_cols, holds a cell without value, type, style,
\* formula and raw text.
C8_CellsPlacedByColumn ==
    \A i \in 1..Len(out) :
        (out[i].src # 0 /\ AscendingCells(out[i].src)) =>
            LET src == SrcCells(out[i].src)
                cols == SrcCols(out[i].src)
                cells == out[i].row.cells
            IN  /\ Len(cells) = out[i].cols
                /\ \A j \in 1..Len(src) :
                       /\ cols[j] <= Len(cells)
                       /\ cells[cols[j]] = ReadCell(src[j]).cell
                       /\ cells[cols[j]].raw_value = src[j].v
                       /\ cells[cols[j]].reference = src[j].r
                /\ \A k \in 1..Len(cells) :
                       (\A j \in 1..Len(src) : cols[j] # k) => IsEmptyCell(cells[k])

\* C8 witness: a row has been yielded whose row element names columns A
\* and C and not the column between them.
C8_Witness ==
    \E i \in 1..Len(out) :
        /\ out[i].src # 0
        /\ SrcCols(out[i].src) = <<1, 3>>
        /\ out[i].row.cells[3].raw_value = <<"3">>

\* the cells of type "s" of the row element at p whose text is an index
\* past the end of the shared-string table
OutOfRangeCells(p) ==
    {j \in 1..Len(SrcCells(p)) :
        /\ SrcCells(p)[j].t = Some(<<"s">>)
        /\ is_some(parse_usize(SrcCells(p)[j].v))
        /\ unwrap(parse_usize(SrcCells(p)[j].v)) >= Len(strings)}

\* C9 (as claimed): a cell of type "s" whose index is out of range for the
\* shared-string table does not abort the iteration, and its row is yielded
\* with the raw text as the cell's String value.
C9_OutOfRangeIndexYieldsRawText ==
    \A p \in RowEvents :
        (p <= pos /\ OutOfRangeCells(p) # {}) =>
            /\ ~panicked
            /\ \A i \in 1..Len(out) :
                   out[i].src = p =>
                       \A j \in OutOfRangeCells(p) :
                           out[i].row.cells[SrcCols(p)[j]].value =
                               ValString(SrcCells(p)[j].v)

\* C10: a cell of type "s" whose text parses as an index within the
\* shared-string table has the table's entry at that index as its String
\* value; one whose text does not parse as an index has its raw text.
C10_SharedStringResolved ==
    \A i \in 1..Len(out) :
        (out[i].src # 0 /\ AscendingCells(out[i].src)) =>
            \A j \in 1..Len(SrcCells(out[i].src)) :
                LET c == SrcCells(out[i].src)[j]
                    idx == parse_usize(c.v)
                    got == out[i].row.cells[SrcCols(out[i].src)[j]].value
                IN  (c.t = Some(<<"s">>) /\ c.v # <<>>) =>
                        /\ (is_some(idx) /\ unwrap(idx) < Len(strings)) =>
                               got = ValString(strings[unwrap(idx) + 1])
                        /\ ~is_some(idx) => got = ValString(c.v)

\* C10 witness: a cell of type "s" with text "1" has been yielded with the
\* second entry of the table as its value.
C10_Witness ==
    \E i \in 1..Len(out) :
        /\ out[i].src # 0
        /\ SrcCells(out[i].src) # <<>>
        /\ SrcCells(out[i].src)[1].t = Some(<<"s">>)
        /\ SrcCells(out[i].src)[1].v = <<"1">>
        /\ out[i].row.cells[1].value = ValString(<<"B","i","t">>)

(***************************************************************************)
(* C11..C20                                                                *)
(***************************************************************************)
\* the type of a cell is none of those next() knows: its text is read as a
\* number
NumericType(cell_type) ==
    cell_type \notin {<<"s">>, <<"s","t","r">>,
                      <<"i","n","l","i","n","e","S","t","r">>,
                      <<"b">>, <<"b","l">>, <<"e">>}

\* the cells of the row element at p, of a type next() does not know or
\* of no type, whose text does not parse as a number
UnparsedCells(p) ==
    {j \in 1..Len(SrcCells(p)) :
        /\ NumericType(CellStart(SrcCells(p)[j]).cell_type)
        /\ SrcCells(p)[j].v # <<>>
        /\ ~is_some(parse_f64(SrcCells(p)[j].v))}

\* C11 (as claimed): a cell of unknown or no type whose text does not parse
\* as a number does not abort the iteration; its row is yielded with the
\* raw text as the cell's String value and as its raw_value.
C11_CoercionRecovered ==
    \A p \in RowEvents :
        (p <= pos /\ UnparsedCells(p) # {}) =>
            /\ ~panicked
            /\ \A i \in 1..Len(out) :
                   out[i].src = p =>
                       \A j \in UnparsedCells(p) :
                           LET c == out[i].row.cells[SrcCols(p)[j]]
                           IN  /\ c.value = ValString(SrcCells(p)[j].v)
                               /\ c.raw_value = SrcCells(p)[j].v

\* the value is a date, a time or both
IsTemporal(value) == value.tag \in {"Date", "Time", "DateTime"}

\* C12: the value of a yielded cell that has text is decided by its
\* declared type before its style: "b" gives Bool (false for the text "0"
\* only), "e" Error of the text, "str" and "inlineStr" String of the text,
\* "bl" None; with a type other than these and "s" the style decides, a
\* date conversion of the number under a date style and Number otherwise.
\* A cell of type "s", "str", "inlineStr", "b", "bl" or "e" is never a
\* date, whatever its style.
C12_TypeBeforeStyle ==
    \A i \in 1..Len(out) :
        (out[i].src # 0 /\ AscendingCells(out[i].src)) =>
            \A j \in 1..Len(SrcCells(out[i].src)) :
                LET src == SrcCells(out[i].src)[j]
                    c == out[i].row.cells[SrcCols(out[i].src)[j]]
                    num == parse_f64(src.v)
                IN  src.v # <<>> =>
                        /\ c.cell_type = IF is_some(src.t) THEN unwrap(src.t) ELSE <<>>
                        /\ c.cell_type = <<"b">> =>
                               c.value = ValBool(src.v # <<"0">>)
                        /\ c.cell_type = <<"e">> => c.value = ValError(src.v)
                        /\ c.cell_type \in {<<"s","t","r">>,
                                            <<"i","n","l","i","n","e","S","t","r">>} =>
                               c.value = ValString(src.v)
                        /\ c.cell_type = <<"b","l">> => c.value = ValNone
                        /\ NumericType(c.cell_type) =>
                               /\ is_some(num)
                               /\ c.value = IF is_date(c.style)
                                            THEN excel_number_to_date(unwrap(num))
                                            ELSE ValNumber(unwrap(num))
                        /\ ~NumericType(c.cell_type) => ~IsTemporal(c.value)

\* C12 witness: a cell of type "b" with a date style and the text "1",
\* which is a date serial, has been yielded as Bool(true).
C12_Witness ==
    \E i \in 1..Len(out) :
        /\ out[i].src # 0
        /\ out[i].row.cells # <<>>
        /\ out[i].row.cells[1].cell_type = <<"b">>
        /\ is_date(out[i].row.cells[1].style)
        /\ out[i].row.cells[1].raw_value = <<"1">>
        /\ out[i].row.cells[1].value = ValBool(TRUE)

\* the dimension element carries the degenerate ref "A1"
DegenerateDimension ==
    /\ Len(events) >= 1
    /\ events[1].kind = "dimension"
    /\ events[1].ref = <<"A","1">>

\* the row elements read so far
RowsRead == {p \in RowEvents : p <= pos}

\* the most cells a row element read so far assembled to (0: none read)
WidestRead ==
    IF RowsRead = {} THEN 0
    ELSE CHOOSE n \in {AssembledLen(p) : p \in RowsRead} :
             \A p \in RowsRead : AssembledLen(p) <= n

\* the highest row number read so far (0: none read)
HighestRead ==
    IF RowsRead = {} THEN 0
    ELSE CHOOSE n \in {RowNum(p) : p \in RowsRead} :
             \A p \in RowsRead : RowNum(p) <= n

Columns == XL_MIN_COL..XL_MAX_COL

\* C14: for every n in 1 ..= 16384, col_letter_to_num gives n back on the
\* letters col_num_to_letter gives for n, in every build; 23 is W, 27 is
\* AA, 28 is AB and 16384 is XFD.
C14_NumLetterNum ==
    (arg.kind = "num" /\ arg.n \in Columns) =>
        /\ Len(rets) >= 1 =>
               /\ is_some(rets[1].value)
               /\ arg.n = 23 => rets[1].value = Some(<<"W">>)
               /\ arg.n = 27 => rets[1].value = Some(<<"A","A">>)
               /\ arg.n = 28 => rets[1].value = Some(<<"A","B">>)
               /\ arg.n = 16384 => rets[1].value = Some(<<"X","F","D">>)
        /\ Len(rets) >= 2 => rets[2] = FnRet(FALSE, Some(arg.n))

\* C14 witness: the last column has gone to its letters and back.
C14_Witness ==
    /\ arg.kind = "num"
    /\ arg.n = XL_MAX_COL
    /\ Len(rets) = 2
    /\ rets[1].value = Some(<<"X","F","D">>)
    /\ rets[2].value = Some(XL_MAX_COL)

\* the text is made of letters only, of either case, and is not empty
IsLetters(s) == s # <<>> /\ \A i \in 1..Len(s) : is_ascii_alphabetic(s[i])

\* the value of a text of letters in bijective base 26, in unbounded
\* arithmetic
Base26(s) == ColFold(to_uppercase(s), 0)

\* C15: for every text of letters, of either case, whose value in base 26
\* is in 1 ..= 16384, col_letter_to_num returns that value and
\* col_num_to_letter gives the text in upper case back; "ab" and "AB" are
\* both 28.
C15_LetterNumLetter ==
    (arg.kind = "str" /\ IsLetters(arg.s) /\ Base26(arg.s) \in Columns) =>
        /\ Len(rets) >= 1 =>
               /\ rets[1] = FnRet(FALSE, Some(Base26(arg.s)))
               /\ arg.s \in {<<"a","b">>, <<"A","B">>} => rets[1].value = Some(28)
        /\ Len(rets) >= 2 => rets[2] = FnRet(FALSE, Some(to_uppercase(arg.s)))

\* C15 witness: "ab" has gone to 28 and back to "AB".
C15_Witness ==
    /\ arg.kind = "str"
    /\ arg.s = <<"a","b">>
    /\ Len(rets) = 2
    /\ rets[1].value = Some(28)
    /\ rets[2].value = Some(<<"A","B">>)

\* C16: col_num_to_letter returns None exactly for n < 1 and n > 16384;
\* for the other n it returns one to three letters of A-Z, those of n in
\* bijective base 26 (the last letter is digit (n - 1) mod 26, the letters
\* before it are those of (n - 1) div 26), so 26 is Z and 27 is AA.
C16_NumToLetterTotal ==
    (arg.kind = "num" /\ Len(rets) >= 1) =>
        /\ ~rets[1].panic
        /\ rets[1].value = None <=> (arg.n < 1 \/ arg.n > 16384)
        /\ is_some(rets[1].value) =>
               LET s == unwrap(rets[1].value)
               IN  /\ Len(s) \in 1..3
                   /\ \A i \in 1..Len(s) : is_ascii_uppercase(s[i])
                   /\ s[Len(s)] = Letters[((arg.n - 1) % 26) + 1]
                   /\ s = ColDigits(arg.n)
                   /\ ColFold(s, 0) = arg.n
        /\ arg.n = 26 => rets[1].value = Some(<<"Z">>)
        /\ arg.n = 27 => rets[1].value = Some(<<"A","A">>)

\* C16 witness: 26 has gone to Z.
C16_Witness ==
    /\ arg.kind = "num"
    /\ arg.n = 26
    /\ Len(rets) >= 1
    /\ rets[1].value = Some(<<"Z">>)

\* C17 (as claimed): on a text that, in upper case, has a character
\* outside A-Z, col_letter_to_num returns None: it neither panics nor
\* returns a number.
C17_NonLettersFail ==
    (/\ arg.kind = "str"
     /\ \E i \in 1..Len(arg.s) : ~is_ascii_uppercase(to_uppercase(arg.s)[i])
     /\ Len(rets) >= 1)
    => rets[1] = FnRet(FALSE, None)

\* C18 (as claimed): on a text of letters whose value in base 26 is
\* outside 1 ..= 16384, col_letter_to_num returns None: it neither panics
\* nor returns a number, however many letters the text has.
C18_OutOfRangeFails ==
    (/\ arg.kind = "str"
     /\ IsLetters(arg.s)
     /\ Base26(arg.s) \notin Columns
     /\ Len(rets) >= 1)
    => rets[1] = FnRet(FALSE, None)

\* the code has the character; the test tells the cases of a letter apart
HasChar(s, c) == \E i \in 1..Len(s) : s[i] = c

\* the code has the substring "Red"
HasRed(s) ==
    \E i \in 1..(Len(s) - 2) : s[i] = "R" /\ s[i + 1] = "e" /\ s[i + 2] = "d"

\* C19: is_date(code) is true exactly when the code is "d", or has a
\* lowercase d and not the substring "Red", or has a lowercase m, or has a
\* lowercase y.  So "Red" suppresses the test for d only, and a code with
\* none of d, m and y, such as "General", "0.00" and "@", is not a date.
C19_IsDatePolicy ==
    (arg.kind = "code" /\ Len(rets) >= 1) =>
        /\ ~rets[1].panic
        /\ rets[1].value =
               Some(\/ arg.s = <<"d">>
                    \/ HasChar(arg.s, "d") /\ ~HasRed(arg.s)
                    \/ HasChar(arg.s, "m")
                    \/ HasChar(arg.s, "y"))
        /\ (HasRed(arg.s) /\ (HasChar(arg.s, "m") \/ HasChar(arg.s, "y"))) =>
               rets[1].value = Some(TRUE)
        /\ (~HasChar(arg.s, "d") /\ ~HasChar(arg.s, "m") /\ ~HasChar(arg.s, "y")) =>
               rets[1].value = Some(FALSE)
        /\ arg.s \in {<<"G","e","n","e","r","a","l">>, <<"0",".","0","0">>, <<"@">>} =>
               rets[1].value = Some(FALSE)

\* C19 witness: is_date has been called on a code with "Red" and a y and
\* has returned true.
C19_Witness ==
    /\ arg.kind = "code"
    /\ arg.s = <<"[","R","e","d","]","y","y","y","y">>
    /\ Len(rets) = 1
    /\ rets[1].value = Some(TRUE)

\* a c element of the worksheet that holds a string with text: of type
\* "s" with an index into the shared-string table, or of type "str" or
\* "inlineStr"
IsStringCell(src) ==
    /\ src.v # <<>>
    /\ \/ /\ src.t = Some(<<"s">>)
          /\ is_some(parse_usize(src.v))
          /\ unwrap(parse_usize(src.v)) < Len(strings)
       \/ src.t \in {Some(<<"s","t","r">>),
                     Some(<<"i","n","l","i","n","e","S","t","r">>)}

\* the text of the string such a c element holds
StringText(src) ==
    IF src.t = Some(<<"s">>) THEN strings[unwrap(parse_usize(src.v)) + 1]
    ELSE src.v

\* the c element the loop of read_to_buffer is about to handle
CellAhead == events[buf.pos + 1].cells[buf.cell + 1]

\* the bytes the step appends to out_bytes
Appended == SubSeq(buf'.out_bytes, Len(buf.out_bytes) + 1, Len(buf'.out_bytes))

\* how many commas the bytes start with
LeadingCommas(bytes) ==
    LET other == {i \in 1..Len(bytes) : bytes[i] # ","}
    IN  IF other = {} THEN Len(bytes)
        ELSE (CHOOSE i \in other : \A j \in other : i <= j) - 1

\* the bytes of a field, without the commas written before it
Field(bytes) == SubSeqFrom(bytes, LeadingCommas(bytes) + 1)

\* C20: read_to_buffer writes every string cell (a shared string resolved
\* through the table, a "str" or an "inlineStr" cell) as a double quote,
\* the text with each double quote in it written twice, and a double quote
C20_StringsQuoted ==
    [][BufCell /\ IsStringCell(CellAhead) /\ ~buf'.panicked
       => Field(Appended) = Quoted(DoubleQuotes(StringText(CellAhead)))]_vars


(***************************************************************************)
(* C21..C29                                                                *)
(***************************************************************************)
\* the positions of the byte c in bytes
Positions(bytes, c) == {i \in 1..Len(bytes) : bytes[i] = c}

\* the n-th smallest member of a set of positions
Nth(S, n) == CHOOSE i \in S : Cardinality({j \in S : j <= i}) = n

\* the lines of out_bytes that a newline terminates
NumLines(bytes) == Cardinality(Positions(bytes, "\n"))

\* the n-th line, without its newline
Line(bytes, n) ==
    LET ends == Positions(bytes, "\n")
        from == IF n = 1 THEN 1 ELSE Nth(ends, n - 1) + 1
    IN  SubSeq(bytes, from, Nth(ends, n) - 1)

\* the fields of a line are what its commas separate (no text of the
\* model holds a comma)
NumCommas(line) == Cardinality(Positions(line, ","))

FieldAt(line, k) ==
    LET seps == Positions(line, ",")
        from == IF k = 1 THEN 1 ELSE Nth(seps, k - 1) + 1
        to == IF k = Cardinality(seps) + 1 THEN Len(line) ELSE Nth(seps, k) - 1
    IN  SubSeq(line, from, to)

\* what read_to_buffer writes for the text of a c element, commas apart
CellBytes(src) ==
    IF src.v = <<>> THEN <<>>
    ELSE BufferText([BufferCellStart(BufStart(FALSE), src) EXCEPT !.out_bytes = <<>>],
                    src.v).out_bytes

\* the row elements read_to_buffer has handled to their end, in order
RowsWritten == {p \in RowEvents : p <= buf.pos}

\* the line of row element p: it is the n-th row element
LineOf(p) == Line(buf.out_bytes, Cardinality({q \in RowEvents : q <= p}))

\* the line has the given number of fields, the cells of row element p in
\* the fields of their columns and every other field empty
LineShowsRow(line, p, fields) ==
    /\ NumCommas(line) = fields - 1
    /\ \A k \in 1..fields :
           LET here == {j \in 1..Len(SrcCells(p)) : SrcCols(p)[j] = k}
           IN  IF here = {} THEN FieldAt(line, k) = <<>>
               ELSE \A j \in here : FieldAt(line, k) = CellBytes(SrcCells(p)[j])

\* read_to_buffer is between two events of the sheet data or has returned
BetweenRows == buf.phase \in {"loop", "returned"} /\ ~buf.in_row /\ ~buf.panicked

\* C21 as stated: one line per row element, and with C columns declared
\* every line has C fields, the cell of column k in field k and the other
\* fields empty
C21_LinesShowRows ==
    BetweenRows /\ HasRange
    => /\ NumLines(buf.out_bytes) = Cardinality(RowsWritten)
       /\ \A p \in RowsWritten : LineShowsRow(LineOf(p), p, DeclaredCols)

\* the cells of row element p are in strictly increasing columns, none
\* past the declared columns
WithinDeclared(p) ==
    /\ AscendingCells(p)
    /\ \A j \in 1..Len(SrcCells(p)) : SrcCols(p)[j] <= DeclaredCols

\* C21 amended: one line per row element; the line of a row whose cells
\* are in increasing columns within the C declared ones has C fields, the
\* cell of column k in field k and the other fields empty
C21_OrderedLinesShowRows ==
    BetweenRows /\ HasRange
    => /\ NumLines(buf.out_bytes) = Cardinality(RowsWritten)
       /\ \A p \in RowsWritten :
              WithinDeclared(p) => LineShowsRow(LineOf(p), p, DeclaredCols)

\* returned from a sheet of three declared columns with a row that lacks
\* the middle cell and a row that lacks the first and the last
C21_Witness ==
    /\ buf.phase = "returned"
    /\ HasRange
    /\ DeclaredCols = 3
    /\ \E p, q \in RowsWritten :
           /\ SrcCols(p) = <<1, 3>>
           /\ SrcCols(q) = <<2>>
           /\ LineOf(q) = <<",", "\"", "2", "\"", ",">>

\* the days from 31 December 1899 to a calendar date, counted forwards
DaysOfYears(y) ==
    365 * (y - 1900) + Cardinality({z \in 1900..(y - 1) : IsLeap(z)})

RECURSIVE DaysOfMonths(_, _)
DaysOfMonths(y, m) == IF m <= 1 THEN 0 ELSE MonthLen(y, m - 1) + DaysOfMonths(y, m - 1)

DayNumber(date) == DaysOfYears(date[1]) + DaysOfMonths(date[1], date[2]) + date[3]

IsCalendarDate(date) ==
    /\ Len(date) = 3
    /\ date[2] \in 1..12
    /\ date[3] \in 1..MonthLen(date[1], date[2])

\* the cell of the argument has no string, bool or error type and a date
\* style, and its text is a number
DateCellArg ==
    /\ arg.kind = "cell"
    /\ NumericType(arg.cell_type)
    /\ is_date(arg.style)
    /\ is_some(parse_f64(arg.s))

\* the serial of the argument
ArgSerial == unwrap(parse_f64(arg.s))

\* C22: under the 1900 date system a cell with no string, bool or error
\* type, a date style and an integral serial >= 1 as text has the Date
\* that many days after 31 December 1899, the day 1900-02-29 that serial
\* 60 stands for not counted: serial 1 is 1900-01-01, 61 is 1900-03-01,
\* 44633, 44687 and 44835 are 2022-03-13, 2022-05-06 and 2022-10-01; and
\* the value has the variant of the converter's result
C22_DateOfSerial ==
    DateCellArg /\ Len(rets) = 1
    => /\ ~rets[1].panic
       /\ rets[1].value.tag = excel_number_to_date(ArgSerial).tag
       /\ ~ArgSerial.neg /\ ArgSerial.frac = <<>> /\ ArgSerial.int >= 1
          => LET serial == ArgSerial.int
                 date == rets[1].value.date
             IN  /\ rets[1].value.tag = "Date"
                 /\ IsCalendarDate(date)
                 /\ serial # 60
                    => DayNumber(date) + (IF serial > 60 THEN 1 ELSE 0) = serial
                 /\ serial = 1 => date = <<1900, 1, 1>>
                 /\ serial = 61 => date = <<1900, 3, 1>>
                 /\ serial = 44633 => date = <<2022, 3, 13>>
                 /\ serial = 44687 => date = <<2022, 5, 6>>
                 /\ serial = 44835 => date = <<2022, 10, 1>>

\* the cell styled mm-dd-yy with the text 44633 has the Date 2022-03-13
C22_Witness ==
    /\ arg.kind = "cell"
    /\ arg.cell_type = <<>>
    /\ arg.style = <<"m","m","-","d","d","-","y","y">>
    /\ arg.s = <<"4","4","6","3","3">>
    /\ Len(rets) = 1
    /\ rets[1].value.tag = "Date"
    /\ rets[1].value.date = <<2022, 3, 13>>

\* a value or a row has been displayed
Displayed(of) == arg.kind = "cell" /\ Len(rets) = 2 /\ rets[2].of = of

\* the renderings of the cells joined by single commas
RECURSIVE Joined(_)
Joined(texts) ==
    IF texts = <<>> THEN <<>>
    ELSE IF Len(texts) = 1 THEN texts[1]
    ELSE texts[1] \o <<",">> \o Joined(Tail(texts))

\* C23: a Bool is displayed as true or false, a String as its text in
\* double quotes, an Error as '#' and its text, None as the empty string,
\* a Date, a DateTime and a Time as their ISO 8601 text; a row as the
\* renderings of its cells joined by single commas
C23_DisplayRenders ==
    /\ Displayed("value")
       => LET v == rets[1].value
              text == rets[2].value
          IN  /\ v.tag = "Bool" => text = IF v.b THEN <<"t","r","u","e">>
                                         ELSE <<"f","a","l","s","e">>
              /\ v.tag = "String" => text = Quoted(v.s)
              /\ v.tag = "Error" => text = <<"#">> \o v.s
              /\ v.tag = "None" => text = <<>>
              /\ v.tag = "Date" => text = DateText(v.date)
              /\ v.tag = "DateTime"
                 => text = DateText(v.date) \o <<" ">> \o TimeText(SubSeq(v.date, 4, 6))
              /\ v.tag = "Time" => text = TimeText(v.date)
    /\ Displayed("row")
       => LET cells == rets[2].row.cells
          IN  rets[2].value = Joined([i \in 1..Len(cells) |-> DisplayCell(cells[i])])

\* the item the call of this step returns
Returned == out'[Len(out')]

\* C24: next_row holds at most one row; a call made while it holds one
\* reads no event and returns either the buffered row, when its number is
\* want_row, emptying the buffer, or an empty row numbered want_row, the
\* buffer kept; a row is put in the buffer only when the buffer is empty
C24_OneRowAhead ==
    [][/\ Len(next_row') <= 1
       /\ is_some(next_row)
          => /\ pos' = pos
             /\ Len(out') = Len(out) + 1
             /\ IF unwrap(next_row).num = want_row
                THEN next_row' = None /\ Returned.row = unwrap(next_row)
                ELSE /\ next_row' = next_row
                     /\ Returned.row.num = want_row
                     /\ \A k \in 1..Len(Returned.row.cells) :
                            IsEmptyCell(Returned.row.cells[k])
       /\ is_some(next_row') /\ next_row' # next_row => ~is_some(next_row)]_vars

\* row 3 was read first: an empty row was returned when it was put in
\* the buffer, another while it was held, and then the row itself
C24_Witness ==
    /\ Len(out) >= 3
    /\ out[1].kind = "gap" /\ out[1].ahead = 3
    /\ out[2].kind = "gap" /\ out[2].ahead = 3
    /\ out[3].kind = "buffered" /\ out[3].row.num = 3
    /\ next_row = None

\* the range has a colon
HasColon(s) == \E i \in 1..Len(s) : s[i] = ":"

\* C27: used_area returns the row and the column of the corner after the
\* colon of a range, whatever stands before the colon, and (0, 0) for a
\* string without a colon
C27_UsedArea ==
    (arg.kind = "area" /\ rets # <<>>)
    => /\ ~HasColon(arg.s) => rets[1] = FnRet(FALSE, <<0, 0>>)
       /\ arg \in RangeArgs => rets[1] = FnRet(FALSE, <<arg.row, arg.col>>)

\* "C3:D9" gave rows = 9, columns = 4
C27_Witness ==
    /\ arg.kind = "area"
    /\ arg.s = <<"C","3",":","D","9">>
    /\ rets = <<FnRet(FALSE, <<9, 4>>)>>

\* C28: once next() has returned None, every later call returns None: it
\* yields no row, while want_row goes on increasing
C28_NoneForever ==
    [][nones > 0 => /\ out' = out
                    /\ nones' = nones + 1
                    /\ want_row' = want_row + 1
                    /\ next_row' = None]_vars

\* None was returned twice, after a row of the file, a buffered row and
\* an empty row
C28_Witness ==
    /\ nones = 2
    /\ \E i, j, k \in 1..Len(out) :
           /\ out[i].kind = "physical"
           /\ out[j].kind = "buffered"
           /\ out[k].kind \in {"gap", "fill"}

\* the cells of the row element at p as its c elements give them
SourceCells(p) == [j \in 1..Len(SrcCells(p)) |-> ReadCell(SrcCells(p)[j]).cell]

\* the row holds the cells of the row element at p, each as the source
\* gives it and in the source's order, and empty cells besides
Intact(row, p) ==
    LET n == Len(SrcCells(p))
        len == Len(row.cells)
    IN  \E at \in [1..n -> 1..len] :
            /\ \A j, k \in 1..n : j < k => at[j] < at[k]
            /\ \A j \in 1..n : row.cells[at[j]] = SourceCells(p)[j]
            /\ \A k \in 1..len :
                   (\A j \in 1..n : at[j] # k) => IsEmptyCell(row.cells[k])

\* the item is a row of the file, not a row made up by the iterator
IsPhysical(item) == item.src # 0

AtCell ==
    /\ InLoop
    /\ buf.in_row
    /\ buf.cell < Len(events[buf.pos + 1].cells)

\* the loop is about to handle the end of its row element
AtRowEnd ==
    /\ InLoop
    /\ buf.in_row
    /\ buf.cell = Len(events[buf.pos + 1].cells)

\* new_col - col - 1 of the c element to come, as a number
GapCount ==
    coordinates(events[buf.pos + 1].cells[buf.cell + 1].r)[1] - buf.col - 1

\* the cells of every row element are in strictly increasing columns
AscendingSheet == \A p \in RowEvents : AscendingCells(p)

\* C29: on a worksheet whose cells are in strictly increasing columns
\* within each row, with or without a used area declared, read_to_buffer
\* computes neither the gap count new_col - col - 1 nor the padding bound
\* num_cols - 1 below zero
C29_NoUnderflow ==
    AscendingSheet
    => /\ AtCell => GapCount >= 0
       /\ (AtRowEnd /\ buf.pushed <= buf.num_cols) => buf.num_cols - 1 >= 0

\* the line is one of empty fields: commas and nothing else
EmptyFields(line) == \A k \in 1..Len(line) : line[k] = ","

\* C26: for the same worksheet, read_to_buffer writes one line for each
\* row that rows() yields before its None, in the same order: a line of
\* empty fields for each empty row the iterator makes up, for a row number
\* absent from the file or for a trailing row of the used area
C26_SameGrid ==
    Ended
    => \A checks \in BOOLEAN :
           LET written == read_to_buffer(events, checks)
           IN  ~written.panic
               => /\ NumLines(written.value) = Len(out)
                  /\ \A i \in 1..Len(out) :
                         ~IsPhysical(out[i])
                         => EmptyFields(Line(written.value, i))

=============================================================================
